---- MODULE Spec2Model ----
(***************************************************************************)
(* Model of the ASCII video player.                                        *)
(*                                                                         *)
(*   Spec        pre-decode playback, VideoExtractor::play_as_ascii        *)
(*               (src/src/video_extraction.rs): the scheduler loop, the    *)
(*               input-polling thread, the mpsc channel between them, the  *)
(*               wall clock, the audio sink, the terminal and the          *)
(*               temporary frame directory.                                *)
(*   SpecStream  streaming playback, play_video (src/src/main.rs) pulling  *)
(*               frames from VideoReader::next_frame                       *)
(*               (src/src/video_extraction/reader.rs).                     *)
(***************************************************************************)
EXTENDS Integers, Sequences, FiniteSets, TLC

\* ------------------------------------------------------------------ bounds
\* Keys the input thread reads in one session.
MaxKeys == 2

\* ------------------------------------------------------- program constants
\* (current_delay as f64 * 1.2).min(500.0)
MaxDelayMs == 500
\* (current_delay as f64 * 0.8).max(16.0)
MinDelayMs == 16
\* Up / Down skip this many frames.
SkipFrames == 10
\* f32 values are held as integers in units of 2^-27.
\* 1.0f32
F32One == 134217728
\* 0.1f32 = 0x3DCCCCCD = 13421773 * 2^-27
F32Tenth == 13421773
\* audio_volume: 0.5
F32Half == 67108864
\* 2^24: an f32 mantissa holds 24 bits
F32Mantissa == 16777216

\* ------------------------------------------------------------ input domains
\* frame_delay_ms, the argument of play_as_ascii (any u64).
FrameDelays == {5, 100, 600}
\* Values of Instant::now() - last_frame_time the clock is sampled at, in ms:
\* 10 is one sleep of the loop, 100 and 600 meet the delays above.
ClockPoints == {0, 10, 100, 600}
\* Number of frame files the extraction leaves in the temporary directory.
FrameCounts == {0, 1, 10, 12}
\* Key codes the input thread can read; "+" stands for '+' and '=', "x" for
\* every key without a handler.
Keys == {"q", "p", "m", "+", "-", "Left", "Right", "Up", "Down", "x"}

Min(a, b) == IF a <= b THEN a ELSE b
Max(a, b) == IF a >= b THEN a ELSE b

VARIABLES
    pc,                  \* scheduler: "start", "loop", "done", "panic"
    result,              \* value play_as_ascii returned: "none", "Ok", "Err"
    error,               \* the call that ended play_as_ascii early, or "none"
    ascii_configured,    \* ascii_width and ascii_height are Some
    total_frames,        \* ascii_frames.len()
    current_frame,
    current_delay,
    elapsed,             \* Instant::now() - last_frame_time, in ms
    paused,
    audio_muted,
    current_volume,      \* f32, in units of 2^-27
    audio_setup_success,
    sink,                \* NoSink or the rodio sink's state, with what became
                         \* of the audio track (source)
    raw_mode,            \* terminal raw mode enabled
    alt_screen,          \* alternate screen (and mouse capture) entered
    cursor_hidden,
    temp_dir,            \* the temporary frame directory exists
    queue,               \* the mpsc channel: <<[key, seq], ...>>
    input,               \* input thread: "none", "run", "dead"
    sentCount,           \* keys sent so far (numbers the messages)
    appliedCount,        \* commands handled so far
    displayed,           \* index of the frame last drawn, -1 before any draw
    shutdown,            \* side effects of the quit handler, in order
    step,                \* the operation that produced this state
    \* streaming playback (main.rs, reader.rs)
    packets,             \* what the demuxer yields, packet by packet
    skip_frames,         \* config.skip_frames
    reader,              \* VideoReader: [pos, skip_counter, frame_count,
                         \* frame_rate]; pos = the next packet of the demuxer
    call,                \* the last call on the VideoReader and its result
                         \* [op, res], the seeks made so far [seeks] and, of
                         \* the last seek, the time asked for, the position
                         \* reached and the frames returned before it
                         \* [time, at, mark]
    m_pc,                \* main: "idle", "start", "opened", "playing", "done"
    m_result,            \* value main returned: "none", "Ok", "Err"
    m_error,             \* the call whose error main returned, or "none"
    m_raw_mode,          \* terminal raw mode enabled (by main)
    m_alt_screen,        \* alternate screen entered (by main)
    v_pc,                \* play_video: "idle", "play", "done"
    v_paused,
    v_result,            \* value play_video returned: "none", "Ok", "Err"
    fetched,             \* frames next_frame returned, in order
    rendered,            \* frames render_ascii_frame drew, in order
    \* FrameBuffer (frame.rs)
    b_pc,                \* the buffer's user: "idle", "ready", "panic"
    frames,              \* the stored frames, oldest first (frames are named
                         \* by the number of their push)
    capacity,
    position,
    pushed,              \* pushes completed so far
    trace,               \* the last two operations: <<[op, ret, pos0], ...>>,
                         \* ret = <<>> for None and <<f>> for Some(f), pos0 =
                         \* the position before the operation
    \* AsciiConverter (ascii_converter.rs) and the glyph mappings
    c_pc,                \* the converter's user: "idle", "ready", "converted"
    converter,           \* [width, height, char_set, brightness, contrast]
    frame,               \* the Frame to convert: [width, height, data], data
                         \* = the pixels <<r, g, b>>, row by row
    reads,               \* the indices convert read from the grayscale image
    ascii_frame,         \* <<>> or <<[width, height, data]>>, the AsciiFrame
    g_pc,                \* the mappings' user: "idle", "given", "mapped"
    given,               \* what is mapped: "luminances" or "pixel"
    luminances,          \* two 8-bit luminances <<a, b>>, a <= b
    pixel,               \* one pixel <<r, g, b>>
    ascii_invert,        \* the invert option of the VideoExtractor
    mapped,              \* [op, idx, ch]: the function applied, the glyph
                         \* indices it computed and the characters it gave
    \* the frame cache of play_as_ascii (video_extraction.rs)
    k_pc,                \* "idle", "extracted", "built"
    extracted,           \* number of frame files ffmpeg wrote
    listing,             \* the entries of the directory as read_dir yields
                         \* them: [frame, ext]
    broken,              \* the frames image_to_ascii fails on
    frame_paths,         \* the sorted paths, each named by its frame number
    ascii_frames         \* the cache: [frame, text], text = "ascii" or the
                         \* placeholder "Error converting frame to ASCII"

\* Pre-decode playback.
extractor == <<pc, result, error, ascii_configured, total_frames, current_frame,
               current_delay, elapsed, paused, audio_muted, current_volume,
               audio_setup_success, sink, raw_mode, alt_screen, cursor_hidden,
               temp_dir, queue, input, sentCount, appliedCount, displayed,
               shutdown, step>>
\* Streaming playback.
stream == <<packets, skip_frames, reader, call, m_pc, m_result, m_error, m_raw_mode,
            m_alt_screen, v_pc, v_paused, v_result, fetched, rendered>>
\* The frame buffer.
buffer == <<b_pc, frames, capacity, position, pushed, trace>>
\* The conversion of frames and pixels to glyphs.
conversion == <<c_pc, converter, frame, reads, ascii_frame, g_pc, given,
                luminances, pixel, ascii_invert, mapped>>
\* The frame cache.
cache == <<k_pc, extracted, listing, broken, frame_paths, ascii_frames>>

vars == <<extractor, stream, buffer, conversion, cache>>

\* What the steps of each of the five leave alone.
outsideExtractor == <<stream, buffer, conversion, cache>>
outsideStream == <<extractor, buffer, conversion, cache>>
outsideBuffer == <<extractor, stream, conversion, cache>>
outsideConversion == <<extractor, stream, buffer, cache>>
outsideCache == <<extractor, stream, buffer, conversion>>

NoSink == [present |-> FALSE]

\* ---------------------------------------------------------- f32 arithmetic
RECURSIVE F32Ulp(_, _)
\* The spacing of f32 values around magnitude m (units of 2^-27).
F32Ulp(m, u) == IF m < F32Mantissa * u THEN u ELSE F32Ulp(m, 2 * u)

\* Round a non-negative exact value to the nearest f32, ties to even.
F32RoundAbs(m) ==
    LET u == F32Ulp(m, 1)
        lo == (m \div u) * u
        r == m - lo
    IN  IF 2 * r < u THEN lo
        ELSE IF 2 * r > u THEN lo + u
        ELSE IF (lo \div u) % 2 = 0 THEN lo ELSE lo + u

F32Round(m) == IF m >= 0 THEN F32RoundAbs(m) ELSE 0 - F32RoundAbs(0 - m)

\* Mutant: the volume is not clamped at 1.0.
VolumeUpUnclamped(v) == F32Round(v + F32Tenth)

\* (current_volume + 0.1).min(1.0)
VolumeUp(v) == Min(F32Round(v + F32Tenth), F32One)

\* (current_volume - 0.1).max(0.0)
VolumeDown(v) == Max(F32Round(v - F32Tenth), 0)

\* ------------------------------------------------- f32 values of any scale
\* An f32 is a record [n, e] standing for n * 2^e, with n odd or 0.
RECURSIVE Pow2(_)
Pow2(k) == IF k = 0 THEN 1 ELSE 2 * Pow2(k - 1)

RECURSIVE BitLen(_)
\* The number of bits of a non-negative integer.
BitLen(n) == IF n = 0 THEN 0 ELSE 1 + BitLen(n \div 2)

Abs(n) == IF n >= 0 THEN n ELSE 0 - n

RECURSIVE Trim(_)
Trim(x) ==
    IF x.n = 0 THEN [n |-> 0, e |-> 0]
    ELSE IF x.n % 2 = 0 THEN Trim([n |-> x.n \div 2, e |-> x.e + 1])
    ELSE x

\* An integer held in an f32 (`x as f32` for a u8 or a small usize).
F32Of(i) == Trim([n |-> i, e |-> 0])

\* n with a non-zero discarded remainder recorded in its lowest bit.
Sticky(n, inexact) == IF inexact /\ n % 2 = 0 THEN n + 1 ELSE n

\* n \div 2^k, the bits shifted out recorded in the lowest bit.
ShiftSticky(n, k) ==
    IF k >= 31 THEN (IF n = 0 THEN 0 ELSE 1)
    ELSE Sticky(n \div Pow2(k), n % Pow2(k) # 0)

RECURSIVE QuotBits(_, _, _, _)
\* Binary long division: quotient bits are produced until there are 27
\* (q >= 2^26).
QuotBits(q, r, d, k) ==
    IF q >= 4 * F32Mantissa THEN [q |-> q, r |-> r, k |-> k]
    ELSE IF 2 * r >= d THEN QuotBits(2 * q + 1, 2 * r - d, d, k + 1)
    ELSE QuotBits(2 * q, 2 * r, d, k + 1)

\* The f32 nearest to p / d, for integers p >= 0 and d > 0 (a decimal literal
\* such as 0.2126 is F32Quot(2126, 10000)).
F32Quot(p, d) ==
    IF p = 0 THEN [n |-> 0, e |-> 0]
    ELSE LET b == QuotBits(p \div d, p % d, d, 0)
         IN  Trim([n |-> F32Round(Sticky(b.q, b.r # 0)), e |-> 0 - b.k])

\* x / d in f32, for x >= 0 and an integer d > 0.
F32DivInt(x, d) ==
    LET q == F32Quot(x.n, d) IN Trim([n |-> q.n, e |-> q.e + x.e])

\* x * c in f32, for an integer 0 <= c < 256 (the product of a 24-bit and an
\* 8-bit number is formed in two halves).
F32MulInt(x, c) ==
    LET m == Abs(x.n)
        hi == (m \div 4096) * c
        lo == (m % 4096) * c
        p == IF hi * 64 < F32Mantissa
             THEN [n |-> F32Round(hi * 4096 + lo), e |-> x.e]
             ELSE [n |-> F32Round(Sticky(hi * 256 + lo \div 16, lo % 16 # 0)),
                   e |-> x.e + 4]
    IN  Trim([n |-> IF x.n >= 0 THEN p.n ELSE 0 - p.n, e |-> p.e])

\* x + y in f32: both are brought to one scale, at which the larger has at
\* most 28 bits and the bits the smaller loses are recorded.
F32Add(x, y) ==
    LET top == Max(x.e + BitLen(Abs(x.n)), y.e + BitLen(Abs(y.n)))
        e0 == Max(Min(x.e, y.e), top - 28)
        At(z) == LET a == IF z.e >= e0 THEN Abs(z.n) * Pow2(z.e - e0)
                          ELSE ShiftSticky(Abs(z.n), e0 - z.e)
                 IN  IF z.n >= 0 THEN a ELSE 0 - a
    IN  IF x.n = 0 THEN y
        ELSE IF y.n = 0 THEN x
        ELSE Trim([n |-> F32Round(At(x) + At(y)), e |-> e0])

F32Neg(x) == [n |-> 0 - x.n, e |-> x.e]
F32Sub(x, y) == F32Add(x, F32Neg(y))
F32LessEq(x, y) == F32Sub(x, y).n <= 0

\* x.clamp(0.0, 1.0)
F32Clamp01(x) ==
    IF x.n < 0 THEN F32Of(0)
    ELSE IF F32LessEq(x, F32Of(1)) THEN x
    ELSE F32Of(1)

\* `x as usize`: truncation, negative values give 0.
F32ToUsize(x) ==
    IF x.n <= 0 THEN 0
    ELSE IF x.e >= 0 THEN x.n * Pow2(x.e)
    ELSE IF 0 - x.e >= 31 THEN 0
    ELSE x.n \div Pow2(0 - x.e)

\* ------------------------------------------------------- command handlers
\* Mutant: the upper clamp is forgotten.
SlowerUnclamped(d) == (d * 12) \div 10

\* KeyCode::Left: (current_delay as f64 * 1.2).min(500.0) as u64
Slower(d) == Min((d * 12) \div 10, MaxDelayMs)

\* KeyCode::Right: (current_delay as f64 * 0.8).max(16.0) as u64
Faster(d) == Max((d * 8) \div 10, MinDelayMs)

\* Mutant: the lower clamp is forgotten.
SeekBackUnclamped(cf) == cf - SkipFrames

\* KeyCode::Up
SeekBack(cf) == IF cf >= SkipFrames THEN cf - SkipFrames ELSE 0

\* KeyCode::Down
SeekForward(cf, total) == IF cf + SkipFrames < total THEN cf + SkipFrames ELSE cf

\* Mutant: the paused flag is not consulted.
AdvanceDueIgnoringPause(p, e, d) == e >= d

\* Mutant: the comparison is strict.
AdvanceDueStrict(p, e, d) == ~p /\ e > d

\* !paused && elapsed >= Duration::from_millis(current_delay)
AdvanceDue(p, e, d) == ~p /\ e >= d

\* Mutant: the index does not wrap.
NextFrameNoWrap(cf, total) == cf + 1

\* (current_frame + 1) % total_frames
NextFrame(cf, total) == (cf + 1) % total


\* --------------------------------------------------------------- the sink
\* Mutant: the sink is not told about a change of volume.
SinkSetVolumeIgnored(s, v) == s

\* sink.set_volume(v) under `if let Some(sink_arc) = &sink_arc`
SinkSetVolume(s, v) == IF s.present THEN [s EXCEPT !.volume = v] ELSE s

\* Mutant: the sink is not told about a pause or a resume.
SinkSetPausedIgnored(s, p) == s

\* sink.pause() / sink.play()
SinkSetPaused(s, p) == IF s.present THEN [s EXCEPT !.paused = p] ELSE s

\* sink.stop()
SinkStop(s) == IF s.present THEN [s EXCEPT !.stopped = TRUE] ELSE s

\* ------------------------------------------------------------------- Init
\* The fields of a VideoExtractor after new, and a terminal, a file system
\* and a channel that play_as_ascii has not touched.
ExtractorFields ==
    /\ result = "none"
    /\ error = "none"
    /\ ascii_configured = FALSE
    /\ total_frames = 0
    /\ current_frame = 0
    /\ current_delay = 0
    /\ elapsed = 0
    /\ paused = FALSE
    /\ audio_muted = FALSE
    /\ current_volume = F32Half
    /\ audio_setup_success = FALSE
    /\ sink = NoSink
    /\ raw_mode = FALSE
    /\ alt_screen = FALSE
    /\ cursor_hidden = FALSE
    /\ temp_dir = FALSE
    /\ queue = <<>>
    /\ input = "none"
    /\ sentCount = 0
    /\ appliedCount = 0
    /\ displayed = -1
    /\ shutdown = <<>>
    /\ step = "new"

\* VideoExtractor::new: nothing is configured, nothing has run.
ExtractorNew == pc = "start" /\ ExtractorFields

\* No VideoExtractor is in use.
ExtractorIdle == pc = "idle" /\ ExtractorFields

\* VideoReader::new: nothing read, nothing counted, frame_rate 0.0.
VideoReaderNew ==
    [pos |-> 1, skip_counter |-> 0, frame_count |-> 0, frame_rate |-> 0]

\* No call has been made on the reader.
NoCall == [op |-> "none", res |-> "none", seeks |-> 0, time |-> 0, at |-> 1,
           mark |-> 0]

\* No streaming session.
StreamIdle ==
    /\ packets = <<>>
    /\ skip_frames = 1
    /\ reader = VideoReaderNew
    /\ call = NoCall
    /\ m_pc = "idle"
    /\ m_result = "none"
    /\ m_error = "none"
    /\ m_raw_mode = FALSE
    /\ m_alt_screen = FALSE
    /\ v_pc = "idle"
    /\ v_paused = FALSE
    /\ v_result = "none"
    /\ fetched = <<>>
    /\ rendered = <<>>

\* No FrameBuffer.
BufferIdle ==
    /\ b_pc = "idle"
    /\ frames = <<>>
    /\ capacity = 0
    /\ position = 0
    /\ pushed = 0
    /\ trace = <<>>

\* No AsciiConverter.
ConverterIdle ==
    /\ c_pc = "idle"
    /\ converter = [width |-> 0, height |-> 0, char_set |-> "Simple",
                    brightness |-> [n |-> 0, e |-> 0],
                    contrast |-> [n |-> 1, e |-> 0]]
    /\ frame = [width |-> 0, height |-> 0, data |-> <<>>]
    /\ reads = <<>>
    /\ ascii_frame = <<>>

\* No glyph mapping.
GlyphIdle ==
    /\ g_pc = "idle"
    /\ given = "none"
    /\ luminances = <<0, 0>>
    /\ pixel = <<0, 0, 0>>
    /\ ascii_invert = FALSE
    /\ mapped = [op |-> "none", idx |-> <<>>, ch |-> <<>>]

\* No frame cache being built.
CacheIdle ==
    /\ k_pc = "idle"
    /\ extracted = 0
    /\ listing = <<>>
    /\ broken = {}
    /\ frame_paths = <<>>
    /\ ascii_frames = <<>>

ConversionIdle == ConverterIdle /\ GlyphIdle /\ CacheIdle

Init == ExtractorNew /\ StreamIdle /\ BufferIdle /\ ConversionIdle

playback == <<total_frames, current_frame, current_delay, elapsed, paused,
              audio_muted, current_volume>>
audio == <<audio_setup_success, sink>>
terminal == <<raw_mode, alt_screen, cursor_hidden>>
channel == <<queue, input, sentCount>>

\* VideoExtractor::configure_ascii
ConfigureAscii ==
    /\ UNCHANGED outsideExtractor
    /\ pc = "start"
    /\ ~ascii_configured
    /\ ascii_configured' = TRUE
    /\ step' = "configure"
    /\ UNCHANGED <<pc, result, error, playback, audio, terminal, temp_dir, channel,
                   appliedCount, displayed, shutdown>>

\* ------------------------------------------------------------------ setup
\* Where the part of play_as_ascii before the loop can end early.
SetupFailures == {"none", "create_dir", "ffmpeg", "read_dir", "raw_mode",
                  "alt_screen", "terminal"}
\* What the audio device does: a sink, no sink (Sink::try_new failed, or the
\* first OutputStream::try_default failed and a later one succeeded), or no
\* device at all (every try_default fails and the last one is unwrapped).
AudioDevices == {"sink", "no_sink", "no_device"}
\* What becomes of the audio track: it is appended to the sink and plays; it
\* is missing because extract_audio, File::open or Decoder::new failed (a
\* warning is printed); or audio_enabled is false.
AudioSources == {"playing", "failed", "disabled"}

\* Mutant: raw mode is enabled before the frames are extracted.
AcquiredRawModeFirst(fail) ==
    [dir |-> fail \notin {"not_configured", "create_dir"},
     raw |-> fail \notin {"not_configured", "create_dir", "raw_mode"},
     alt |-> fail \in {"terminal", "none"}]

\* What play_as_ascii holds when the call `fail` returns its error ("none":
\* when the loop is entered): the temporary directory from create_dir_all on,
\* raw mode from enable_raw_mode on, the alternate screen from execute! on.
Acquired(fail) ==
    [dir |-> fail \notin {"not_configured", "create_dir"},
     raw |-> fail \in {"alt_screen", "terminal", "none"},
     alt |-> fail \in {"terminal", "none"}]

\* play_as_ascii returning Err before the loop, at the call `fail`.
SetupErr(fail) ==
    /\ pc' = "done"
    /\ result' = "Err"
    /\ error' = fail
    /\ temp_dir' = Acquired(fail).dir
    /\ raw_mode' = Acquired(fail).raw
    /\ alt_screen' = Acquired(fail).alt
    /\ UNCHANGED <<ascii_configured, playback, audio, cursor_hidden, channel,
                   appliedCount, displayed, shutdown>>

\* play_as_ascii from its entry to the first iteration of the loop, the
\* audio track faring in one of the ways of `sources`.
SetupWith(sources) ==
    /\ UNCHANGED outsideExtractor
    /\ pc = "start"
    /\ step' = "setup"
    /\ \E fail \in SetupFailures, n \in FrameCounts, d \in FrameDelays,
          dev \in AudioDevices, src \in sources :
        IF ~ascii_configured THEN SetupErr("not_configured")
        ELSE IF fail # "none" THEN SetupErr(fail)
        ELSE
            /\ temp_dir' = Acquired(fail).dir
            /\ raw_mode' = Acquired(fail).raw
            /\ alt_screen' = Acquired(fail).alt
            /\ total_frames' = n
            /\ current_frame' = 0
            /\ current_delay' = d
            /\ paused' = FALSE
            /\ elapsed' = 0
            /\ audio_muted' = FALSE
            /\ current_volume' = F32Half
            /\ audio_setup_success' = (dev = "sink")
            /\ sink' = IF dev = "sink"
                       THEN [present |-> TRUE, volume |-> F32Half,
                             paused |-> FALSE, stopped |-> FALSE,
                             source |-> src]
                       ELSE NoSink
            /\ IF dev = "no_device"
               THEN /\ pc' = "panic"
                    /\ error' = "audio_unwrap"
                    /\ input' = "none"
               ELSE /\ pc' = "loop"
                    /\ error' = "none"
                    /\ input' = "run"
            /\ UNCHANGED <<result, ascii_configured, cursor_hidden, queue,
                           sentCount, appliedCount, displayed, shutdown>>

\* play_as_ascii with an audio track that plays whenever there is a sink.
Setup == SetupWith({"playing"})

\* play_as_ascii with an audio track that plays, fails or is disabled.
SetupAudio == SetupWith(AudioSources)

\* ----------------------------------------------------------- input thread
\* Mutant: the input thread toggles the paused flag itself.
InputSendFromTogglingPause(codes, budget) ==
    /\ UNCHANGED outsideExtractor
    /\ input = "run"
    /\ sentCount < budget
    /\ step' = "send"
    /\ \E k \in codes :
        IF pc = "loop"
        THEN /\ queue' = Append(queue, [key |-> k, seq |-> sentCount + 1])
             /\ sentCount' = sentCount + 1
             /\ input' = input
        ELSE /\ input' = "dead"
             /\ UNCHANGED <<queue, sentCount>>
    /\ paused' = ~paused
    /\ UNCHANGED <<pc, result, error, ascii_configured, total_frames,
                   current_frame, current_delay, elapsed, audio_muted,
                   current_volume, audio, terminal, temp_dir, appliedCount,
                   displayed, shutdown>>

\* The thread read a key event and calls tx.send(key.code).unwrap(): the
\* message is queued while the receiver lives, and the unwrap panics once
\* play_as_ascii has returned and dropped it.
InputSendFrom(codes, budget) ==
    /\ UNCHANGED outsideExtractor
    /\ input = "run"
    /\ sentCount < budget
    /\ step' = "send"
    /\ \E k \in codes :
        IF pc = "loop"
        THEN /\ queue' = Append(queue, [key |-> k, seq |-> sentCount + 1])
             /\ sentCount' = sentCount + 1
             /\ input' = input
        ELSE /\ input' = "dead"
             /\ UNCHANGED <<queue, sentCount>>
    /\ UNCHANGED <<pc, result, error, ascii_configured, playback, audio, terminal,
                   temp_dir, appliedCount, displayed, shutdown>>

\* The input thread of a session in which any key may be pressed.
InputSend == InputSendFrom(Keys, MaxKeys)

\* --------------------------------------------------------------- the clock
\* Wall-clock time passes: the next reading of the clock is a later one.
ClockAdvance ==
    /\ UNCHANGED outsideExtractor
    /\ pc = "loop"
    /\ \E t \in ClockPoints : t > elapsed /\ elapsed' = t
    /\ step' = "clock"
    /\ UNCHANGED <<pc, result, error, ascii_configured, total_frames, current_frame,
                   current_delay, paused, audio_muted, current_volume, audio,
                   terminal, temp_dir, channel, appliedCount, displayed,
                   shutdown>>

\* ------------------------------------------------------- command handling
\* rx.try_recv() returned Ok(k): the message leaves the channel.
Recv(k) ==
    /\ pc = "loop"
    /\ queue # <<>>
    /\ Head(queue).key = k
    /\ appliedCount' = appliedCount + 1
    /\ step' = k


\* The message handled leaves the channel; the loop goes on.
Handled == queue' = Tail(queue) /\ UNCHANGED <<input, sentCount>>

\* play_as_ascii is left (return or panic): its locals are dropped, the
\* receiver and the messages still in the channel with them.
DropLocals ==
    /\ total_frames' = 0
    /\ current_frame' = 0
    /\ current_delay' = 0
    /\ elapsed' = 0
    /\ paused' = FALSE
    /\ audio_muted' = FALSE
    /\ current_volume' = F32Half
    /\ audio_setup_success' = FALSE
    /\ sink' = NoSink
    /\ queue' = <<>>
    /\ displayed' = -1

\* Mutant: the directory is removed before the terminal is restored.
QuitOrderDirFirst == <<"stop_audio", "remove_dir", "raw_off", "leave_alt", "show_cursor">>

\* KeyCode::Char('q'): the side effects of the handler, in program order.
QuitOrder == <<"stop_audio", "raw_off", "leave_alt", "show_cursor", "remove_dir">>

\* The handler's fallible calls (each ends the function with `?`).
QuitFailures == {"none", "raw_off", "leave_alt", "show_cursor", "remove_dir"}

RECURSIVE QuitDone(_, _)
\* The side effects that take place when the call `fail` returns an error:
\* those before it in `order`; without a sink there is no audio to stop.
QuitDone(order, fail) ==
    IF order = <<>> \/ Head(order) = fail THEN <<>>
    ELSE IF Head(order) = "stop_audio" /\ ~sink.present
         THEN QuitDone(Tail(order), fail)
         ELSE <<Head(order)>> \o QuitDone(Tail(order), fail)

Did(log, e) == \E i \in 1..Len(log) : log[i] = e

KeyQuit ==
    /\ UNCHANGED outsideExtractor
    /\ Recv("q")
    /\ \E fail \in QuitFailures :
        LET log == QuitDone(QuitOrder, fail) IN
        /\ shutdown' = log \o <<IF fail = "none" THEN "return_ok" ELSE "return_err">>
        /\ raw_mode' = IF Did(log, "raw_off") THEN FALSE ELSE raw_mode
        /\ alt_screen' = IF Did(log, "leave_alt") THEN FALSE ELSE alt_screen
        /\ cursor_hidden' = IF Did(log, "show_cursor") THEN FALSE ELSE cursor_hidden
        /\ temp_dir' = IF Did(log, "remove_dir") THEN FALSE ELSE temp_dir
        /\ result' = IF fail = "none" THEN "Ok" ELSE "Err"
        /\ error' = fail
    /\ pc' = "done"
    /\ DropLocals
    /\ UNCHANGED <<ascii_configured, input, sentCount>>

\* KeyCode::Char('p')
KeyPause ==
    /\ UNCHANGED outsideExtractor
    /\ Recv("p")
    /\ Handled
    /\ paused' = ~paused
    /\ sink' = SinkSetPaused(sink, ~paused)
    /\ UNCHANGED <<pc, result, error, ascii_configured, total_frames, current_frame,
                   current_delay, elapsed, audio_muted, current_volume,
                   audio_setup_success, terminal, temp_dir, displayed, shutdown>>

\* KeyCode::Char('m')
KeyMute ==
    /\ UNCHANGED outsideExtractor
    /\ Recv("m")
    /\ Handled
    /\ audio_muted' = ~audio_muted
    /\ sink' = SinkSetVolume(sink, IF ~audio_muted THEN 0 ELSE current_volume)
    /\ UNCHANGED <<pc, result, error, ascii_configured, total_frames, current_frame,
                   current_delay, elapsed, paused, current_volume,
                   audio_setup_success, terminal, temp_dir, displayed, shutdown>>

\* KeyCode::Char('+') | KeyCode::Char('=')
KeyVolumeUp ==
    /\ UNCHANGED outsideExtractor
    /\ Recv("+")
    /\ Handled
    /\ current_volume' = VolumeUp(current_volume)
    /\ sink' = IF ~audio_muted THEN SinkSetVolume(sink, VolumeUp(current_volume))
               ELSE sink
    /\ UNCHANGED <<pc, result, error, ascii_configured, total_frames, current_frame,
                   current_delay, elapsed, paused, audio_muted,
                   audio_setup_success, terminal, temp_dir, displayed, shutdown>>

\* KeyCode::Char('-')
KeyVolumeDown ==
    /\ UNCHANGED outsideExtractor
    /\ Recv("-")
    /\ Handled
    /\ current_volume' = VolumeDown(current_volume)
    /\ sink' = IF ~audio_muted THEN SinkSetVolume(sink, VolumeDown(current_volume))
               ELSE sink
    /\ UNCHANGED <<pc, result, error, ascii_configured, total_frames, current_frame,
                   current_delay, elapsed, paused, audio_muted,
                   audio_setup_success, terminal, temp_dir, displayed, shutdown>>

\* KeyCode::Left
KeyLeft ==
    /\ UNCHANGED outsideExtractor
    /\ Recv("Left")
    /\ Handled
    /\ current_delay' = Slower(current_delay)
    /\ UNCHANGED <<pc, result, error, ascii_configured, total_frames, current_frame,
                   elapsed, paused, audio_muted, current_volume, audio,
                   terminal, temp_dir, displayed, shutdown>>

\* KeyCode::Right
KeyRight ==
    /\ UNCHANGED outsideExtractor
    /\ Recv("Right")
    /\ Handled
    /\ current_delay' = Faster(current_delay)
    /\ UNCHANGED <<pc, result, error, ascii_configured, total_frames, current_frame,
                   elapsed, paused, audio_muted, current_volume, audio,
                   terminal, temp_dir, displayed, shutdown>>

\* KeyCode::Up
KeyUp ==
    /\ UNCHANGED outsideExtractor
    /\ Recv("Up")
    /\ Handled
    /\ current_frame' = SeekBack(current_frame)
    /\ UNCHANGED <<pc, result, error, ascii_configured, total_frames, current_delay,
                   elapsed, paused, audio_muted, current_volume, audio,
                   terminal, temp_dir, displayed, shutdown>>

\* KeyCode::Down
KeyDown ==
    /\ UNCHANGED outsideExtractor
    /\ Recv("Down")
    /\ Handled
    /\ current_frame' = SeekForward(current_frame, total_frames)
    /\ UNCHANGED <<pc, result, error, ascii_configured, total_frames, current_delay,
                   elapsed, paused, audio_muted, current_volume, audio,
                   terminal, temp_dir, displayed, shutdown>>

\* _ => {}
KeyOther ==
    /\ UNCHANGED outsideExtractor
    /\ Recv("x")
    /\ Handled
    /\ UNCHANGED <<pc, result, error, ascii_configured, playback, audio, terminal,
                   temp_dir, displayed, shutdown>>

\* ------------------------------------------------------------------ a tick
\* Mutant: the drain loop is left with a message still pending.
ChannelDrainedLate == Len(queue) <= 1

\* rx.try_recv() returned Err: the drain loop is left.
ChannelDrained == queue = <<>>

\* &ascii_frames[current_frame] is in bounds.
FrameInRange(cf, total) == cf < total

\* The rest of one loop iteration once the channel is drained: the advance
\* check, terminal.draw and the sleep. A remainder by zero and an index out of
\* bounds panic; a draw error ends play_as_ascii with `?`.
Tick ==
    /\ UNCHANGED outsideExtractor
    /\ pc = "loop"
    /\ ChannelDrained
    /\ step' = "tick"
    /\ LET due == AdvanceDue(paused, elapsed, current_delay) IN
       IF due /\ total_frames = 0
       THEN /\ pc' = "panic"
            /\ error' = "rem_by_zero"
            /\ DropLocals
            /\ UNCHANGED <<result, cursor_hidden>>
       ELSE LET cf == IF due THEN NextFrame(current_frame, total_frames)
                      ELSE current_frame
            IN  \E drawn \in BOOLEAN :
                IF ~drawn
                THEN /\ pc' = "done"
                     /\ result' = "Err"
                     /\ error' = "draw"
                     /\ DropLocals
                     /\ UNCHANGED cursor_hidden
                ELSE IF ~FrameInRange(cf, total_frames)
                THEN /\ pc' = "panic"
                     /\ error' = "index_out_of_bounds"
                     /\ DropLocals
                     /\ UNCHANGED <<result, cursor_hidden>>
                ELSE /\ current_frame' = cf
                     /\ elapsed' = IF due THEN 0 ELSE elapsed
                     /\ displayed' = cf
                     /\ cursor_hidden' = TRUE
                     /\ UNCHANGED <<pc, result, error, total_frames, current_delay,
                                    paused, audio_muted, current_volume, audio,
                                    queue>>
    /\ UNCHANGED <<ascii_configured, raw_mode, alt_screen, temp_dir, input,
                   sentCount, appliedCount, shutdown>>

Next ==
    \/ ConfigureAscii
    \/ Setup
    \/ InputSend
    \/ ClockAdvance
    \/ KeyQuit
    \/ KeyPause
    \/ KeyMute
    \/ KeyVolumeUp
    \/ KeyVolumeDown
    \/ KeyLeft
    \/ KeyRight
    \/ KeyUp
    \/ KeyDown
    \/ KeyOther
    \/ Tick

Spec == Init /\ [][Next]_vars

\* ====================================================== streaming playback
\* Packets the demuxer yields to one session.
MaxPackets == 4
\* A packet of the video stream that decodes to a frame ("frame"), one that
\* yields no frame (receive_frame is not Ok: "none"), one the decoder rejects
\* (send_packet fails: "bad"), and a packet of another stream ("other").
PacketKinds == {"frame", "none", "bad", "other"}
\* config.skip_frames
SkipFactors == {1, 2, 3}
\* What the poll of one loop iteration finds: no event, a key, an event that
\* is no key, or an I/O error of event::poll / event::read.
PollOutcomes == {"nothing", "q", "Esc", "space", "key", "resize", "io_error"}

RECURSIVE SeqsUpTo(_, _)
SeqsUpTo(S, n) ==
    IF n = 0 THEN {<<>>}
    ELSE LET shorter == SeqsUpTo(S, n - 1)
         IN  shorter \cup {Append(q, x) : q \in {t \in shorter : Len(t) = n - 1}, x \in S}

\* The stream's avg_frame_rate, in frames per second.
FrameRates == {1, 3}

\* VideoReader::open: the frame rate of the stream is stored.
Opened(r, rate) == [r EXCEPT !.frame_rate = rate]

\* Mutant: one frame more is skipped before each frame emitted.
SkipDecodedOneMore(counter, n) == counter < n

\* self.skip_counter < self.config.skip_frames - 1
SkipDecoded(counter, n) == counter < n - 1

RECURSIVE ReadPackets(_, _, _)
\* VideoReader::next_frame from packet `pos` on: the result, the frame (named
\* by the position of its packet) and the reader's fields afterwards.
ReadPackets(pkts, n, r) ==
    IF r.pos > Len(pkts)
    THEN [res |-> "EndOfStream", frame |-> 0, reader |-> r]
    ELSE LET kind == pkts[r.pos]
             after == [r EXCEPT !.pos = r.pos + 1]
         IN  IF kind = "bad"
             THEN [res |-> "DecodingError", frame |-> 0, reader |-> after]
             ELSE IF kind = "frame"
             THEN IF SkipDecoded(r.skip_counter, n)
                  THEN ReadPackets(pkts, n,
                           [after EXCEPT !.skip_counter = r.skip_counter + 1])
                  ELSE [res |-> "Ok", frame |-> r.pos,
                        reader |-> [after EXCEPT !.skip_counter = 0,
                                                 !.frame_count = r.frame_count + 1]]
             ELSE ReadPackets(pkts, n, after)

\* The program is started on a file with some content and configuration.
StreamInit ==
    /\ ExtractorIdle
    /\ BufferIdle
    /\ ConversionIdle
    /\ packets \in SeqsUpTo(PacketKinds, MaxPackets)
    /\ skip_frames \in SkipFactors
    /\ reader = VideoReaderNew
    /\ call = NoCall
    /\ m_pc = "start"
    /\ m_result = "none"
    /\ m_error = "none"
    /\ m_raw_mode = FALSE
    /\ m_alt_screen = FALSE
    /\ v_pc = "idle"
    /\ v_paused = FALSE
    /\ v_result = "none"
    /\ fetched = <<>>
    /\ rendered = <<>>

\* main returns the error of the call `e`.
MainErr(e) ==
    /\ m_pc' = "done"
    /\ m_result' = "Err"
    /\ m_error' = e

\* VideoReader::new(..)? and reader.open()?: ffmpeg::init, input(&path), the
\* best video stream and its decoder can each fail.
OpenOutcomes == {"ok", "init", "input", "no_video_stream", "decoder"}

\* main from its entry to the call of setup_terminal.
MainOpen ==
    /\ m_pc = "start"
    /\ \E o \in OpenOutcomes :
        IF o = "ok"
        THEN /\ m_pc' = "opened"
             /\ \E rate \in FrameRates : reader' = Opened(reader, rate)
             /\ UNCHANGED <<m_result, m_error>>
        ELSE MainErr(o) /\ UNCHANGED reader
    /\ UNCHANGED <<packets, skip_frames, call, m_raw_mode, m_alt_screen, v_pc,
                   v_paused, v_result, fetched, rendered, outsideStream>>

\* The fallible calls of setup_terminal.
SetupTerminalOutcomes == {"ok", "enable_raw_mode", "enter_alt_screen"}

\* setup_terminal()?, and on success the call of play_video.
MainSetupTerminal ==
    /\ m_pc = "opened"
    /\ \E o \in SetupTerminalOutcomes :
        /\ m_raw_mode' = (o # "enable_raw_mode")
        /\ m_alt_screen' = (o = "ok")
        /\ IF o = "ok"
           THEN /\ m_pc' = "playing"
                /\ v_pc' = "play"
                /\ UNCHANGED <<m_result, m_error>>
           ELSE MainErr(o) /\ UNCHANGED v_pc
    /\ UNCHANGED <<packets, skip_frames, reader, call, v_paused, v_result, fetched,
                   rendered, outsideStream>>

\* The fallible calls of restore_terminal.
RestoreTerminalOutcomes == {"ok", "leave_alt_screen", "disable_raw_mode"}

\* restore_terminal()? once play_video has returned, and the return of main.
MainRestoreTerminal ==
    /\ m_pc = "playing"
    /\ v_pc = "done"
    /\ m_pc' = "done"
    /\ \E o \in RestoreTerminalOutcomes :
        /\ m_alt_screen' = (o = "leave_alt_screen")
        /\ m_raw_mode' = (o # "ok")
        /\ m_result' = IF o = "ok" THEN v_result ELSE "Err"
        /\ m_error' = IF o # "ok" THEN o
                       ELSE IF v_result = "Err" THEN "play_video" ELSE "none"
    /\ UNCHANGED <<packets, skip_frames, reader, call, v_pc, v_paused, v_result,
                   fetched, rendered, outsideStream>>

\* paused = !paused on KeyCode::Char(' ')
PausedAfter(ev, p) == IF ev = "space" THEN ~p ELSE p

\* Mutant: an error of next_frame other than the end of the stream is
\* returned to the caller.
LoopEndResultPropagating(res) == IF res = "EndOfStream" THEN "Ok" ELSE "Err"

\* `while let Ok(frame) = reader.next_frame()` fails on the error `res`: the
\* loop is left and play_video returns Ok(()).
LoopEndResult(res) == "Ok"

\* One iteration of the loop of play_video, from the call of next_frame to
\* the end of the body (or to the return of play_video).
PlayVideoIteration ==
    /\ v_pc = "play"
    /\ LET got == ReadPackets(packets, skip_frames, reader) IN
       /\ reader' = got.reader
       /\ call' = [call EXCEPT !.op = "next_frame", !.res = got.res]
       /\ IF got.res # "Ok"
          THEN \* while let Ok(frame) = ... fails: the loop ends, Ok(())
               /\ v_pc' = "done"
               /\ v_result' = LoopEndResult(got.res)
               /\ UNCHANGED <<v_paused, fetched, rendered>>
          ELSE /\ fetched' = Append(fetched, got.frame)
               /\ \E ev \in PollOutcomes, drawn \in BOOLEAN :
                    IF ev = "io_error"
                    THEN /\ v_pc' = "done"
                         /\ v_result' = "Err"
                         /\ UNCHANGED <<v_paused, rendered>>
                    ELSE IF ev \in {"q", "Esc"}
                    THEN /\ v_pc' = "done"
                         /\ v_result' = "Ok"
                         /\ UNCHANGED <<v_paused, rendered>>
                    ELSE /\ v_paused' = PausedAfter(ev, v_paused)
                         /\ IF v_paused'
                            THEN \* sleep 100 ms; continue
                                 UNCHANGED <<v_pc, v_result, rendered>>
                            ELSE IF drawn
                            THEN /\ rendered' = Append(rendered, got.frame)
                                 /\ UNCHANGED <<v_pc, v_result>>
                            ELSE /\ v_pc' = "done"
                                 /\ v_result' = "Err"
                                 /\ UNCHANGED rendered
    /\ UNCHANGED <<packets, skip_frames, m_pc, m_result, m_error, m_raw_mode,
                   m_alt_screen, outsideStream>>

StreamNext ==
    \/ MainOpen
    \/ MainSetupTerminal
    \/ PlayVideoIteration
    \/ MainRestoreTerminal

SpecStream == StreamInit /\ [][StreamNext]_vars

\* ============================================================ VideoReader
\* Seeks made on one reader.
MaxSeeks == 1
\* The times seek is called with, in half seconds.
SeekTimes == {0, 1, 3}

\* A reader opened on a file with some content, rate and configuration.
ReaderInit ==
    /\ ExtractorIdle
    /\ BufferIdle
    /\ ConversionIdle
    /\ packets \in SeqsUpTo(PacketKinds, MaxPackets)
    /\ skip_frames \in SkipFactors
    /\ \E rate \in FrameRates : reader = Opened(VideoReaderNew, rate)
    /\ call = NoCall
    /\ m_pc = "idle"
    /\ m_result = "none"
    /\ m_error = "none"
    /\ m_raw_mode = FALSE
    /\ m_alt_screen = FALSE
    /\ v_pc = "idle"
    /\ v_paused = FALSE
    /\ v_result = "none"
    /\ fetched = <<>>
    /\ rendered = <<>>

\* One call of VideoReader::next_frame.
ReaderNextFrame ==
    /\ m_pc = "idle"
    /\ reader.frame_rate > 0
    /\ LET got == ReadPackets(packets, skip_frames, reader) IN
       /\ reader' = got.reader
       /\ call' = [call EXCEPT !.op = "next_frame", !.res = got.res]
       /\ fetched' = IF got.res = "Ok" THEN Append(fetched, got.frame)
                     ELSE fetched
    /\ UNCHANGED <<packets, skip_frames, m_pc, m_result, m_error, m_raw_mode,
                   m_alt_screen, v_pc, v_paused, v_result, rendered,
                   outsideStream>>

\* (time_seconds * self.frame_rate) as u64, the time given in half seconds.
SeekFrameCount(halves, rate) == (halves * rate) \div 2

\* VideoReader::seek after a successful context.seek to packet `to`.
Sought(r, halves, to) ==
    [r EXCEPT !.pos = to, !.frame_count = SeekFrameCount(halves, r.frame_rate)]

\* One call of VideoReader::seek: context.seek fails, or the demuxer is
\* repositioned (to a key frame before the time asked for) and the frame
\* index re-estimated.
ReaderSeek ==
    /\ m_pc = "idle"
    /\ reader.frame_rate > 0
    /\ call.seeks < MaxSeeks
    /\ \E t \in SeekTimes, to \in 1..(Len(packets) + 1), ok \in BOOLEAN :
        IF ok
        THEN /\ reader' = Sought(reader, t, to)
             /\ call' = [op |-> "seek", res |-> "Ok", seeks |-> call.seeks + 1,
                         time |-> t, at |-> to, mark |-> Len(fetched)]
        ELSE /\ call' = [call EXCEPT !.op = "seek", !.res = "Err",
                                      !.seeks = call.seeks + 1]
             /\ UNCHANGED reader
    /\ UNCHANGED <<packets, skip_frames, m_pc, m_result, m_error, m_raw_mode,
                   m_alt_screen, v_pc, v_paused, v_result, fetched, rendered,
                   outsideStream>>

\* A reader on which next_frame is called again and again.
SpecReader == ReaderInit /\ [][ReaderNextFrame]_vars

\* A reader on which next_frame and seek are called in any order.
SeekNext == ReaderNextFrame \/ ReaderSeek
SpecSeek == ReaderInit /\ [][SeekNext]_vars

\* ============================================================ glyph ramps
\* CharacterSet::get_chars: the ramp of each set, one string per character
\* (a quote or a character outside ASCII is written by its code point).
Simple ==
    <<" ", ".", ":", "-", "=", "+", "*", "#", "%", "@">>
Standard ==
    <<" ", ".", "u0060", "^", "\"", ",", ":", ";", "I", "l", "!", "i", ">",
      "<", "~", "+", "_", "-", "?", "]", "[", "}", "{", "1", ")", "(",
      "|", "/", "t", "f", "j", "r", "x", "n", "u", "v", "c", "z", "X",
      "Y", "U", "J", "C", "L", "Q", "0", "O", "Z", "m", "w", "q", "p",
      "d", "b", "k", "h", "a", "o", "*", "#", "M", "W", "&", "8", "%",
      "B", "@", "$">>
Extended ==
    <<" ", ".", "u0027", "u0060", "^", "\"", ",", ":", ";", "I", "l", "!", "i",
      ">", "<", "~", "+", "_", "-", "?", "]", "[", "}", "{", "1", ")",
      "(", "|", "\\", "/", "t", "f", "j", "r", "x", "n", "u", "v", "c",
      "z", "X", "Y", "U", "J", "C", "L", "Q", "0", "O", "Z", "m", "w",
      "q", "p", "d", "b", "k", "h", "a", "o", "*", "#", "M", "W", "&",
      "8", "%", "B", "@", "$", "u2588", "u2593", "u2592", "u2591",
      "u2584", "u2580", "u2590", "u258C">>

CharacterSets == {"Simple", "Standard", "Extended"}

GetChars(char_set) ==
    CASE char_set = "Simple" -> Simple
      [] char_set = "Standard" -> Standard
      [] char_set = "Extended" -> Extended

\* chars.chars().count()
CharCount(char_set) == Len(GetChars(char_set))

\* const ASCII_CHARS of the VideoExtractor
ASCII_CHARS ==
    <<" ", ".", ",", ":", ";", "i", "1", "t", "f", "L", "C", "G", "0",
      "8", "@">>

\* chars.chars().nth(i).unwrap_or(space)
Nth(chars, i) == IF i < Len(chars) THEN chars[i + 1] ELSE " "

\* The largest value of a u8.
U8Max == 255
U8 == 0..U8Max

\* Mutant: the index is scaled by the length of the ramp, not by its last
\* index.
ScaleByCount(brightness, count) == (brightness * count) \div U8Max

\* brightness_to_ascii: (brightness as usize * (char_count - 1)) / 255
Scale(brightness, count) == (brightness * (count - 1)) \div U8Max

BrightnessToAsciiIdx(brightness, char_set) ==
    Scale(brightness, CharCount(char_set))

brightness_to_ascii(brightness, char_set) ==
    Nth(GetChars(char_set), BrightnessToAsciiIdx(brightness, char_set))

\* The f32 literals of the conversions.
F32Zero == F32Of(0)
F32Unit == F32Of(1)
F32Point5 == F32Quot(1, 2)
LumaR == F32Quot(2126, 10000)
LumaG == F32Quot(7152, 10000)
LumaB == F32Quot(722, 10000)

\* x * c in f32 for a c that is a small integer times a power of two.
F32Mul(x, c) ==
    LET p == F32MulInt(x, Abs(c.n))
    IN  Trim([n |-> IF c.n >= 0 THEN p.n ELSE 0 - p.n, e |-> p.e + c.e])

\* convert: ((brightness as f32 / 255.0 - 0.5) * contrast + 0.5 + brightness)
\*              .clamp(0.0, 1.0)
Adjusted(luma, contrast_, brightness_) ==
    F32Clamp01(F32Add(F32Add(F32Mul(F32Sub(F32DivInt(F32Of(luma), U8Max),
                                           F32Point5),
                                    contrast_),
                             F32Point5),
                      brightness_))

\* Mutant: the adjusted luminance scales the length of the ramp.
CharIdxByCount(count, adjusted) == F32ToUsize(F32MulInt(adjusted, count))

\* convert: ((char_count - 1) as f32 * adjusted) as usize
CharIdx(count, adjusted) == F32ToUsize(F32MulInt(adjusted, count - 1))

ConvertCharIdx(luma, char_set, contrast_, brightness_) ==
    CharIdx(CharCount(char_set), Adjusted(luma, contrast_, brightness_))

\* The character convert pushes for one luminance.
ConvertChar(luma, char_set, contrast_, brightness_) ==
    Nth(GetChars(char_set),
        ConvertCharIdx(luma, char_set, contrast_, brightness_))

\* pixel_to_ascii: 0.2126 * r + 0.7152 * g + 0.0722 * b
PixelBrightness(r, g, b) ==
    F32Add(F32Add(F32MulInt(LumaR, r), F32MulInt(LumaG, g)),
           F32MulInt(LumaB, b))

\* Mutant: the invert option is ignored.
BrightnessIndexPlain(normalized, invert) == normalized

\* pixel_to_ascii: if self.ascii_invert { 1.0 - normalized } else { normalized }
BrightnessIndex(normalized, invert) ==
    IF invert THEN F32Sub(F32Unit, normalized) ELSE normalized

\* pixel_to_ascii: (brightness_index * (ASCII_CHARS.len() - 1) as f32) as usize
PixelAsciiIndex(r, g, b, invert) ==
    F32ToUsize(F32MulInt(BrightnessIndex(F32DivInt(PixelBrightness(r, g, b),
                                                   U8Max),
                                         invert),
                         Len(ASCII_CHARS) - 1))

pixel_to_ascii(r, g, b, invert) ==
    Nth(ASCII_CHARS, PixelAsciiIndex(r, g, b, invert))

\* ========================================================= AsciiConverter
\* The grids of the converter and the sizes of the frames given to it.
GridWidths == {1, 2}
GridHeights == {1, 2}
FrameWidths == {1, 2}
FrameHeights == {1, 2, 4}
\* The pixels of a frame: black and white.
Pixels == {<<0, 0, 0>>, <<U8Max, U8Max, U8Max>>}
\* The arguments of set_brightness and set_contrast: -2, 0, 0.5, 2 and
\* -1, 0.5, 1, 3.
BrightnessArgs == {F32Of(-2), F32Zero, F32Point5, F32Of(2)}
ContrastArgs == {F32Of(-1), F32Point5, F32Unit, F32Of(3)}

\* The frames of one size, every pixel black or white.
FramesOf(w, h) ==
    {[width |-> w, height |-> h, data |-> d] : d \in [1..(w * h) -> Pixels]}

Frames == UNION {FramesOf(w, h) : w \in FrameWidths, h \in FrameHeights}

\* AsciiConverter::new (use_color and the colour of a cell are left out: the
\* colour is copied from the pixel the character is computed from).
AsciiConverterNew(w, h, cs) ==
    [width |-> w, height |-> h, char_set |-> cs,
     brightness |-> F32Zero, contrast |-> F32Unit]

\* x.clamp(lo, hi)
F32Clamp(x, lo, hi) ==
    IF F32LessEq(x, lo) THEN lo ELSE IF F32LessEq(hi, x) THEN hi ELSE x

\* Frame::to_image: the data are padded with zeroes or cut to width * height
\* pixels.
ToImage(f) ==
    [f EXCEPT !.data = [i \in 1..(f.width * f.height) |->
                            IF i <= Len(f.data) THEN f.data[i]
                            ELSE <<0, 0, 0>>]]

\* The luminance imageops::grayscale gives a pixel (weights 0.2126, 0.7152
\* and 0.0722 in integer arithmetic).
Luma(p) == (2126 * p[1] + 7152 * p[2] + 722 * p[3]) \div 10000

\* Frame::to_grayscale: one byte for each pixel of the image.
ToGrayscale(f) ==
    LET img == ToImage(f) IN [i \in 1..Len(img.data) |-> Luma(img.data[i])]

\* Frame::resize: an image of the new size. Each new pixel is taken from the
\* source pixel at the same relative place (the Lanczos filter of the image
\* library mixes in its neighbours; with black and white sources the result
\* stays within black and white).
Resize(f, new_width, new_height) ==
    LET img == ToImage(f)
    IN  [width |-> new_width, height |-> new_height,
         data |-> [i \in 1..(new_width * new_height) |->
                     LET x == (i - 1) % new_width
                         y == (i - 1) \div new_width
                     IN  img.data[((y * f.height) \div new_height) * f.width
                                  + (x * f.width) \div new_width + 1]]]

\* convert: the image the cells are read from, width x (2 * height) unless
\* the frame has the size of the grid.
Resized(c, f) ==
    IF f.width # c.width \/ f.height # c.height
    THEN Resize(f, c.width, c.height * 2)
    ELSE f

\* Mutant: the last byte of the grayscale image counts as out of range.
SkippedEarly(idx, len) == idx + 1 >= len

\* convert: if idx >= grayscale.len() { continue; }
Skipped(idx, len) == idx >= len

\* convert: idx = y * resized.width + x for y in 0..height, x in 0..width,
\* in the order of the loops, without the indices the guard skips.
ReadIndices(c, f) ==
    LET resized == Resized(c, f)
        len == Len(ToGrayscale(resized))
        all == [k \in 1..(c.width * c.height) |->
                   ((k - 1) \div c.width) * resized.width
                   + ((k - 1) % c.width)]
    IN  SelectSeq(all, LAMBDA idx : ~Skipped(idx, len))

\* AsciiConverter::convert: the AsciiFrame.
Converted(c, f) ==
    LET grayscale == ToGrayscale(Resized(c, f))
        read == ReadIndices(c, f)
    IN  [width |-> c.width, height |-> c.height,
         data |-> [k \in 1..Len(read) |->
                     ConvertChar(grayscale[read[k] + 1], c.char_set,
                                 c.contrast, c.brightness)]]

\* A converter for some grid and character set and a frame to convert.
ConverterInit ==
    /\ ExtractorIdle
    /\ StreamIdle
    /\ BufferIdle
    /\ GlyphIdle
    /\ CacheIdle
    /\ c_pc = "ready"
    /\ \E w \in GridWidths, h \in GridHeights, cs \in CharacterSets :
            converter = AsciiConverterNew(w, h, cs)
    /\ frame \in Frames
    /\ reads = <<>>
    /\ ascii_frame = <<>>

\* AsciiConverter::set_brightness
SetBrightness ==
    /\ c_pc = "ready"
    /\ \E b \in BrightnessArgs :
            converter' = [converter EXCEPT
                             !.brightness = F32Clamp(b, F32Of(-1), F32Unit)]
    /\ UNCHANGED <<c_pc, frame, reads, ascii_frame, g_pc, given, luminances,
                   pixel, ascii_invert, mapped, outsideConversion>>

\* AsciiConverter::set_contrast
SetContrast ==
    /\ c_pc = "ready"
    /\ \E c \in ContrastArgs :
            converter' = [converter EXCEPT
                             !.contrast = F32Clamp(c, F32Zero, F32Of(2))]
    /\ UNCHANGED <<c_pc, frame, reads, ascii_frame, g_pc, given, luminances,
                   pixel, ascii_invert, mapped, outsideConversion>>

\* AsciiConverter::convert
Convert ==
    /\ c_pc = "ready"
    /\ c_pc' = "converted"
    /\ reads' = ReadIndices(converter, frame)
    /\ ascii_frame' = <<Converted(converter, frame)>>
    /\ UNCHANGED <<converter, frame, g_pc, given, luminances, pixel,
                   ascii_invert, mapped, outsideConversion>>

ConverterNext == SetBrightness \/ SetContrast \/ Convert

SpecConverter == ConverterInit /\ [][ConverterNext]_vars

\* ========================================================== glyph mappings
\* The channel values of the pixel given to pixel_to_ascii and to convert.
Channels == {0, 128, U8Max}
Black == <<0, 0, 0>>
White == <<U8Max, U8Max, U8Max>>

\* Two luminances a <= b or one pixel are given, with a converter as
\* AsciiConverter::new leaves it (brightness 0, contrast 1) and the invert
\* option of the VideoExtractor either way.
GlyphInit ==
    /\ ExtractorIdle
    /\ StreamIdle
    /\ BufferIdle
    /\ CacheIdle
    /\ c_pc = "ready"
    /\ \E cs \in CharacterSets : converter = AsciiConverterNew(1, 1, cs)
    /\ frame = [width |-> 0, height |-> 0, data |-> <<>>]
    /\ reads = <<>>
    /\ ascii_frame = <<>>
    /\ g_pc = "given"
    /\ \/ /\ given = "luminances"
          /\ luminances \in {l \in U8 \X U8 : l[1] <= l[2]}
          /\ pixel = Black
          /\ ascii_invert = FALSE
       \/ /\ given = "pixel"
          /\ luminances = <<0, 0>>
          /\ pixel \in Channels \X Channels \X Channels
          /\ ascii_invert \in BOOLEAN
    /\ mapped = [op |-> "none", idx |-> <<>>, ch |-> <<>>]

\* The body of convert's loops for each of the two luminances.
ConvertLuminances ==
    /\ g_pc = "given"
    /\ given = "luminances"
    /\ g_pc' = "mapped"
    /\ mapped' =
          [op |-> "convert",
           idx |-> [k \in 1..2 |->
                      ConvertCharIdx(luminances[k], converter.char_set,
                                     converter.contrast, converter.brightness)],
           ch |-> [k \in 1..2 |->
                     ConvertChar(luminances[k], converter.char_set,
                                 converter.contrast, converter.brightness)]]
    /\ UNCHANGED <<c_pc, converter, frame, reads, ascii_frame, given,
                   luminances, pixel, ascii_invert, outsideConversion>>

\* brightness_to_ascii for each of the two luminances.
BrightnessToAscii ==
    /\ g_pc = "given"
    /\ given = "luminances"
    /\ g_pc' = "mapped"
    /\ mapped' =
          [op |-> "brightness_to_ascii",
           idx |-> [k \in 1..2 |->
                      BrightnessToAsciiIdx(luminances[k], converter.char_set)],
           ch |-> [k \in 1..2 |->
                     brightness_to_ascii(luminances[k], converter.char_set)]]
    /\ UNCHANGED <<c_pc, converter, frame, reads, ascii_frame, given,
                   luminances, pixel, ascii_invert, outsideConversion>>

\* VideoExtractor::pixel_to_ascii for the pixel.
PixelToAscii ==
    /\ g_pc = "given"
    /\ given = "pixel"
    /\ g_pc' = "mapped"
    /\ mapped' =
          [op |-> "pixel_to_ascii",
           idx |-> <<PixelAsciiIndex(pixel[1], pixel[2], pixel[3],
                                     ascii_invert)>>,
           ch |-> <<pixel_to_ascii(pixel[1], pixel[2], pixel[3],
                                   ascii_invert)>>]
    /\ UNCHANGED <<c_pc, converter, frame, reads, ascii_frame, given,
                   luminances, pixel, ascii_invert, outsideConversion>>

\* AsciiConverter::convert for a frame of the one pixel, on a grid of one
\* cell.
ConvertPixel ==
    /\ g_pc = "given"
    /\ given = "pixel"
    /\ g_pc' = "mapped"
    /\ LET f == [width |-> 1, height |-> 1, data |-> <<pixel>>]
       IN  mapped' =
              [op |-> "convert_pixel",
               idx |-> <<ConvertCharIdx(ToGrayscale(f)[1], converter.char_set,
                                        converter.contrast,
                                        converter.brightness)>>,
               ch |-> Converted(converter, f).data]
    /\ UNCHANGED <<c_pc, converter, frame, reads, ascii_frame, given,
                   luminances, pixel, ascii_invert, outsideConversion>>

GlyphNext ==
    \/ ConvertLuminances
    \/ BrightnessToAscii
    \/ PixelToAscii
    \/ ConvertPixel

SpecGlyph == GlyphInit /\ [][GlyphNext]_vars

\* ============================================== frame cache (play_as_ascii)
\* "frame_%04d.jpg": the frame number is written with at least 4 digits.
FramePad == 4
\* Numbers of frames the extraction wrote: for the small ones read_dir yields
\* the files in every order, for the long one in the order of writing.
ShortCounts == {0, 1, 2, 3, 4}
LongCounts == {10000}
ExtractedCounts == ShortCounts \cup LongCounts
\* The character '.' sorts before every digit.
Dot == -1

RECURSIVE DecDigits(_)
DecDigits(k) ==
    IF k < 10 THEN <<k>> ELSE Append(DecDigits(k \div 10), k % 10)

RECURSIVE ZeroPad(_, _)
ZeroPad(d, w) == IF Len(d) >= w THEN d ELSE ZeroPad(<<0>> \o d, w)

\* The path of frame k from the place where the paths differ: the digits and
\* the '.' of ".jpg".
FrameName(k) == ZeroPad(DecDigits(k), FramePad) \o <<Dot>>

RECURSIVE LexLess(_, _)
\* The order of strings: character by character, a prefix first.
LexLess(a, b) ==
    IF a = <<>> THEN b # <<>>
    ELSE IF b = <<>> THEN FALSE
    ELSE IF Head(a) # Head(b) THEN Head(a) < Head(b)
    ELSE LexLess(Tail(a), Tail(b))

\* The order of the paths of two frames.
PathLess(j, k) == LexLess(FrameName(j), FrameName(k))

\* The frame files in the order of their numbers, and in every order.
Written(n) == [i \in 1..n |-> [frame |-> i, ext |-> "jpg"]]
Shuffled(n) ==
    {[i \in 1..n |-> [frame |-> p[i], ext |-> "jpg"]] :
        p \in {q \in [1..n -> 1..n] : \A i, j \in 1..n : q[i] = q[j] => i = j}}

\* Another file in the directory (the audio track of an earlier session).
Stray == [frame |-> 0, ext |-> "wav"]

\* The extraction wrote its frame files; some of them cannot be converted.
CacheInit ==
    /\ ExtractorIdle
    /\ StreamIdle
    /\ BufferIdle
    /\ ConverterIdle
    /\ GlyphIdle
    /\ k_pc = "extracted"
    /\ extracted \in ExtractedCounts
    /\ \E files \in (IF extracted \in ShortCounts THEN Shuffled(extracted)
                     ELSE {Written(extracted)}) :
            listing \in {files, <<Stray>> \o files}
    /\ broken \in (IF extracted \in ShortCounts THEN SUBSET (1..extracted)
                   ELSE {{}, {2}})
    /\ frame_paths = <<>>
    /\ ascii_frames = <<>>

\* read_dir, the filter on the extension jpg, and frame_paths.sort()
SortedPaths(entries) ==
    LET jpg == SelectSeq(entries, LAMBDA en : en.ext = "jpg")
    IN  SortSeq([i \in 1..Len(jpg) |-> jpg[i].frame], PathLess)

\* par_iter().map(image_to_ascii or the placeholder).collect(): one entry for
\* each path, in the order of the paths.
AsciiFrames(paths, bad) ==
    [i \in 1..Len(paths) |->
        [frame |-> paths[i],
         text |-> IF paths[i] \in bad THEN "Error converting frame to ASCII"
                  ELSE "ascii"]]

\* play_as_ascii from the directory listing to the cache.
BuildCache ==
    /\ k_pc = "extracted"
    /\ k_pc' = "built"
    /\ frame_paths' = SortedPaths(listing)
    /\ ascii_frames' = AsciiFrames(SortedPaths(listing), broken)
    /\ UNCHANGED <<extracted, listing, broken, outsideCache>>

SpecCache == CacheInit /\ [][BuildCache]_vars

\* ============================================================ FrameBuffer
\* Pushes made on one buffer.
MaxPushes == 5
\* The capacity given to FrameBuffer::new.
Capacities == {0, 1, 2, 3}

\* An absent result and a present one.
None == <<>>
Some(f) == <<f>>

\* The operation just made joins the last two on record.
Record(t, e) == IF Len(t) < 2 THEN Append(t, e) ELSE <<t[2], e>>

\* FrameBuffer::new(capacity)
BufferInit ==
    /\ ExtractorIdle
    /\ StreamIdle
    /\ ConversionIdle
    /\ b_pc = "ready"
    /\ frames = <<>>
    /\ capacity \in Capacities
    /\ position = 0
    /\ pushed = 0
    /\ trace = <<>>

\* self.frames.len() >= self.capacity
IsFull(fr, cap) == Len(fr) >= cap

\* Mutant: a full buffer grows instead of dropping its oldest frame.
PushFramesGrowing(fr, cap, f) == Append(fr, f)

\* push: the frames afterwards (frames.remove(0) first when full).
PushFrames(fr, cap, f) ==
    IF IsFull(fr, cap) THEN Append(Tail(fr), f) ELSE Append(fr, f)

\* Mutant: the cursor is not shifted when the oldest frame is dropped.
PushPositionUnshifted(fr, cap, pos) == pos

\* push: the position afterwards.
PushPosition(fr, cap, pos) ==
    IF IsFull(fr, cap) /\ pos > 0 THEN pos - 1 ELSE pos

\* FrameBuffer::push; frames.remove(0) panics on an empty Vec.
BufferPush ==
    /\ b_pc = "ready"
    /\ pushed < MaxPushes
    /\ IF IsFull(frames, capacity) /\ frames = <<>>
       THEN /\ b_pc' = "panic"
            /\ UNCHANGED <<frames, position, pushed>>
       ELSE /\ frames' = PushFrames(frames, capacity, pushed + 1)
            /\ position' = PushPosition(frames, capacity, position)
            /\ pushed' = pushed + 1
            /\ UNCHANGED b_pc
    /\ trace' = Record(trace, [op |-> "push", ret |-> None, pos0 |-> position])
    /\ UNCHANGED <<capacity, outsideBuffer>>

\* Mutant: the cursor moves past the frame after the one returned.
NextPositionSkipping(fr, pos) == IF pos + 1 < Len(fr) THEN pos + 2 ELSE pos + 1

\* next: the position after a present result.
NextPosition(fr, pos) == pos + 1

\* FrameBuffer::next
BufferNext ==
    /\ b_pc = "ready"
    /\ IF position < Len(frames)
       THEN /\ position' = NextPosition(frames, position)
            /\ trace' = Record(trace, [op |-> "next",
                                       ret |-> Some(frames[position + 1]),
                                       pos0 |-> position])
       ELSE /\ trace' = Record(trace, [op |-> "next", ret |-> None,
                                       pos0 |-> position])
            /\ UNCHANGED position
    /\ UNCHANGED <<b_pc, frames, capacity, pushed, outsideBuffer>>

\* FrameBuffer::previous
BufferPrevious ==
    /\ b_pc = "ready"
    /\ IF position > 0
       THEN /\ position' = position - 1
            /\ trace' = Record(trace, [op |-> "previous",
                                       ret |-> Some(frames[position]),
                                       pos0 |-> position])
       ELSE /\ trace' = Record(trace, [op |-> "previous", ret |-> None,
                                       pos0 |-> position])
            /\ UNCHANGED position
    /\ UNCHANGED <<b_pc, frames, capacity, pushed, outsideBuffer>>

\* FrameBuffer::rewind
BufferRewind ==
    /\ b_pc = "ready"
    /\ position' = 0
    /\ trace' = Record(trace, [op |-> "rewind", ret |-> None, pos0 |-> position])
    /\ UNCHANGED <<b_pc, frames, capacity, pushed, outsideBuffer>>

\* FrameBuffer::clear
BufferClear ==
    /\ b_pc = "ready"
    /\ frames' = <<>>
    /\ position' = 0
    /\ trace' = Record(trace, [op |-> "clear", ret |-> None, pos0 |-> position])
    /\ UNCHANGED <<b_pc, capacity, pushed, outsideBuffer>>

BufferStep ==
    \/ BufferPush
    \/ BufferNext
    \/ BufferPrevious
    \/ BufferRewind
    \/ BufferClear

SpecBuffer == BufferInit /\ [][BufferStep]_vars

\* ======================================================= whole programs
\* Either program is run: pre-decode playback or streaming playback.
ProgramsInit == Init \/ StreamInit
ProgramsNext == Next \/ StreamNext
SpecPrograms == ProgramsInit /\ [][ProgramsNext]_vars

\* ===================================================== volume commands
\* Keys pressed in a session of volume commands.
MaxVolumeKeys == 7
\* The key codes of the volume and mute commands.
VolumeKeys == {"m", "+", "-"}

\* The input thread of a session in which only volume keys are pressed.
InputSendVolume == InputSendFrom(VolumeKeys, MaxVolumeKeys)

\* Pre-decode playback seen through its volume commands alone: the command
\* handlers as they are, without the ticks and the clock (which touch neither
\* the volume, the mute flag nor the sink).
VolumeNext ==
    \/ ConfigureAscii
    \/ Setup
    \/ InputSendVolume
    \/ KeyMute
    \/ KeyVolumeUp
    \/ KeyVolumeDown

SpecVolume == Init /\ [][VolumeNext]_vars

InputSendStatus == InputSendFrom(VolumeKeys, MaxKeys)

\* Pre-decode playback with every outcome of the audio setup, its volume
\* commands and its renders.
StatusNext ==
    \/ ConfigureAscii
    \/ SetupAudio
    \/ InputSendStatus
    \/ ClockAdvance
    \/ KeyMute
    \/ KeyVolumeUp
    \/ KeyVolumeDown
    \/ Tick

SpecStatus == Init /\ [][StatusNext]_vars

\* ================================================================== claims
IsPrefix(a, b) == Len(a) <= Len(b) /\ SubSeq(b, 1, Len(a)) = a
Front(q) == SubSeq(q, 1, Len(q) - 1)
Last(q) == q[Len(q)]

\* C1: in pre-decode playback with total_frames >= 1, whatever commands are
\* drained and whatever ticks happen, current_frame is in [0, total_frames)
\* at every render: the frame drawn is one of the cache, and no tick faults on
\* the lookup ascii_frames[current_frame].
C1_CurrentFrameInRange ==
    /\ [](pc = "loop" /\ total_frames >= 1 =>
            /\ current_frame \in 0..(total_frames - 1)
            /\ displayed \in -1..(total_frames - 1))
    /\ [][pc = "loop" /\ total_frames >= 1 => pc' # "panic"]_vars

\* C1 witness: a forward seek has put the cursor on the last of 12 frames
\* (the next advance wraps).
C1_Witness ==
    /\ pc = "loop"
    /\ total_frames = 12
    /\ step = "Down"
    /\ current_frame = 11

\* C2: while paused, no step other than a seek changes current_frame, however
\* far the clock runs; the resume command itself leaves the frame, the delay
\* and the elapsed time alone, and after it a tick advances the frame by one
\* (modulo total_frames) exactly when the elapsed time has reached the delay.
C2_PauseFreezesFrame ==
    [][pc = "loop" /\ pc' = "loop" =>
        /\ (paused /\ step' \notin {"Up", "Down"} => current_frame' = current_frame)
        /\ (step' = "p" =>
                /\ paused' = ~paused
                /\ elapsed' = elapsed
                /\ current_delay' = current_delay)
        /\ (step' = "tick" /\ ~paused =>
                current_frame' = IF elapsed >= current_delay
                                 THEN (current_frame + 1) % total_frames
                                 ELSE current_frame)]_vars

\* C2 witness: playback was paused and has just been resumed (two 'p'); the
\* frame drawn before the pause is still the current one although the clock
\* ran far past the delay meanwhile.
C2_Witness ==
    /\ pc = "loop"
    /\ step = "p"
    /\ ~paused
    /\ appliedCount = 2
    /\ total_frames = 10
    /\ current_delay = 100
    /\ elapsed = 600
    /\ displayed = 3
    /\ current_frame = 3

\* C3 (as claimed): in streaming playback no frame the source produced is
\* dropped: whenever play_video is running and not paused, the frames rendered
\* are exactly the frames next_frame has returned, in order (so the first
\* frame rendered after a pause follows the last one rendered before it).
C3_NoFrameDropped == v_pc = "play" /\ ~v_paused => rendered = fetched

\* C4: the scheduler handles the messages in the order the input thread
\* enqueued them, each once (message number appliedCount + 1 is always the
\* next one handled, and it leaves the channel), and a tick (advance check
\* and render) happens only when the channel is empty, every message sent
\* having been handled.
C4_FifoDrainBeforeTick ==
    /\ [](pc = "loop" =>
            /\ sentCount = appliedCount + Len(queue)
            /\ \A i \in 1..Len(queue) : queue[i].seq = appliedCount + i)
    /\ [][/\ (appliedCount' # appliedCount =>
                /\ queue # <<>>
                /\ appliedCount' = appliedCount + 1
                /\ Head(queue).seq = appliedCount'
                /\ step' = Head(queue).key
                /\ (pc' = "loop" => queue' = Tail(queue)))
          /\ (step' \in Keys => appliedCount' = appliedCount + 1)
          /\ (step' = "tick" =>
                /\ queue = <<>>
                /\ appliedCount = sentCount
                /\ appliedCount' = appliedCount)]_vars

\* C4 witness: two messages were pending at once; the first has been handled
\* and the second is still in the channel.
C4_Witness ==
    /\ pc = "loop"
    /\ step \in Keys
    /\ appliedCount = 1
    /\ Len(queue) = 1
    /\ queue[1].seq = 2

\* C5: a tick that renders advances current_frame if and only if playback is
\* not paused and the elapsed time is >= the delay; an advance adds one,
\* wraps from total_frames - 1 to 0 and resets the elapsed time; otherwise
\* frame and elapsed time are kept; the frame drawn is the current one. With
\* 10 frames, 100 ms and frame 0: a tick at 0 ms draws frame 0, a tick at
\* >= 100 ms draws frame 1.
C5_TickAdvance ==
    [][step' = "tick" /\ pc' = "loop" =>
        LET due == ~paused /\ elapsed >= current_delay IN
        /\ displayed' = current_frame'
        /\ (due => /\ current_frame' = IF current_frame = total_frames - 1
                                       THEN 0 ELSE current_frame + 1
                   /\ elapsed' = 0)
        /\ (~due => /\ current_frame' = current_frame
                    /\ elapsed' = elapsed)
        /\ (total_frames = 10 /\ current_delay = 100 /\ current_frame = 0 /\ ~paused =>
                /\ (elapsed = 0 => displayed' = 0)
                /\ (elapsed >= 100 => displayed' = 1))]_vars

\* C5 witness: 10 frames, 100 ms, no command: the first advance was made at
\* exactly 100 ms elapsed and frame 1 is on display.
C5_Witness ==
    /\ pc = "loop"
    /\ step = "tick"
    /\ appliedCount = 0
    /\ sentCount = 0
    /\ total_frames = 10
    /\ current_delay = 100
    /\ elapsed = 0
    /\ displayed = 1

\* C6: after a 'slower' (Left) command the delay is at most 500 ms and after
\* a 'faster' (Right) command it is at least 16 ms, however many came before.
C6_SpeedClamps ==
    pc = "loop" =>
        /\ (step = "Left" => current_delay <= 500)
        /\ (step = "Right" => current_delay >= 16)

\* C6 witness: two consecutive 'slower' commands from 600 ms; the delay sits
\* at the 500 ms clamp.
C6_Witness ==
    /\ pc = "loop"
    /\ step = "Left"
    /\ appliedCount = 2
    /\ current_delay = 500

\* C7 (as claimed): after any single speed command the delay lies within
\* [16 ms, 500 ms], whatever delay the session started with.
C7_SpeedCommandWithinRange ==
    pc = "loop" /\ step \in {"Left", "Right"} => current_delay \in 16..500

\* C8: a 'skip back 10' (Up) at current_frame < 10 gives 0 and at
\* current_frame >= 10 gives current_frame - 10; the index is never negative.
C8_SeekBackClamps ==
    /\ [](current_frame >= 0)
    /\ [][step' = "Up" =>
            /\ (current_frame < 10 => current_frame' = 0)
            /\ (current_frame >= 10 => current_frame' = current_frame - 10)]_vars

\* C8 witness: the only command of the session, an Up issued while one of the
\* frames 1..9 was current and on display, has put the cursor on frame 0.
C8_Witness ==
    /\ pc = "loop"
    /\ step = "Up"
    /\ appliedCount = 1
    /\ displayed \in 1..9
    /\ current_frame = 0

\* C9 (as claimed): a 'skip forward 10' (Down) sets current_frame to
\* min(current_frame + 10, total_frames - 1).
C9_SeekForwardClamps ==
    [][step' = "Down" /\ total_frames >= 1 =>
        current_frame' = Min(current_frame + 10, total_frames - 1)]_vars

\* The side effects of a complete quit, with and without an audio sink.
QuitLog(withSink) ==
    (IF withSink THEN <<"stop_audio">> ELSE <<>>)
        \o <<"raw_off", "leave_alt", "show_cursor", "remove_dir">>

\* C10: the quit handler stops the audio, then restores the terminal (raw
\* mode off, alternate screen left, cursor shown), then removes the temporary
\* directory, then returns: its side effects are always an initial part of
\* that sequence, the whole of it when it returns Ok; the function is left in
\* the same step, the messages behind quit are dropped unhandled, and nothing
\* is handled, ticked or drawn afterwards.
C10_QuitOrderly ==
    /\ [](/\ (shutdown # <<>> =>
                /\ pc = "done"
                /\ \E a \in BOOLEAN : IsPrefix(Front(shutdown), QuitLog(a))
                /\ Last(shutdown) \in {"return_ok", "return_err"}
                /\ (Last(shutdown) = "return_ok" <=>
                        \E a \in BOOLEAN : Front(shutdown) = QuitLog(a))
                /\ (result = "Ok" <=> Last(shutdown) = "return_ok"))
          /\ (result = "Ok" =>
                /\ shutdown # <<>>
                /\ ~raw_mode /\ ~alt_screen /\ ~cursor_hidden /\ ~temp_dir))
    /\ [][/\ (step' = "q" =>
                /\ pc' = "done"
                /\ queue' = <<>>
                /\ (sink.present => shutdown'[1] = "stop_audio"))
          /\ (pc = "done" =>
                /\ pc' = "done"
                /\ appliedCount' = appliedCount
                /\ displayed' = displayed
                /\ step' \notin (Keys \cup {"tick"})
                /\ UNCHANGED <<playback, audio, terminal, temp_dir, shutdown>>)]_vars

\* C10 witness: quit was handled with a second message queued behind it and
\* an audio sink playing; play_as_ascii returned Ok after the whole sequence.
C10_Witness ==
    /\ pc = "done"
    /\ result = "Ok"
    /\ step = "q"
    /\ sentCount = 2
    /\ appliedCount = 1
    /\ shutdown = <<"stop_audio", "raw_off", "leave_alt", "show_cursor",
                    "remove_dir", "return_ok">>

\* C11 (as claimed): whenever play_as_ascii has returned, by whatever exit
\* path, the terminal is restored: raw mode is off and the alternate screen
\* is left.
C11_TerminalRestoredOnExit == pc = "done" => ~raw_mode /\ ~alt_screen

\* C12: an unusable input is an error returned before the terminal is
\* touched. In play_as_ascii a missing configuration and a failing
\* create_dir_all, ffmpeg extraction or read_dir end the call with Err while
\* raw mode and the alternate screen have not been entered; in main a failing
\* VideoReader::new or open (no input, no video stream, no decoder) ends the
\* program with Err before setup_terminal.
C12_InputErrorsBeforeRawMode ==
    /\ (error \in {"not_configured", "create_dir", "ffmpeg", "read_dir"} =>
            /\ pc = "done"
            /\ result = "Err"
            /\ ~raw_mode /\ ~alt_screen /\ ~cursor_hidden)
    /\ (step = "setup" /\ result = "Err" /\ (raw_mode \/ alt_screen) =>
            error \in {"alt_screen", "terminal"})
    /\ (m_error \in OpenOutcomes \ {"ok"} =>
            /\ m_pc = "done"
            /\ m_result = "Err"
            /\ ~m_raw_mode /\ ~m_alt_screen)
    /\ (m_pc \in {"start", "opened"} => ~m_raw_mode /\ ~m_alt_screen)

\* C12 witness: the ffmpeg frame extraction failed; play_as_ascii returned
\* Err with the temporary directory created and the terminal untouched.
C12_Witness ==
    /\ pc = "done"
    /\ step = "setup"
    /\ error = "ffmpeg"
    /\ result = "Err"
    /\ temp_dir
    /\ ~raw_mode

\* C13 (as claimed): when the quit handler fails to remove the temporary
\* frame directory, play_as_ascii still returns Ok.
C13_RemovalFailureNotAnError ==
    pc = "done" /\ error = "remove_dir" => result = "Ok"

\* C14 (as claimed): whatever the audio does, a play_as_ascii that got
\* through the frame extraction and the terminal setup enters its tick loop:
\* it neither returns nor faults on an audio failure.
C14_AudioFailureNotFatal ==
    step = "setup" /\ error \notin ((SetupFailures \ {"none"}) \cup {"not_configured"}) =>
        pc = "loop"

\* C15: while an audio sink exists, in every state of the loop (hence after
\* every handled command, and with no step in between the state change and
\* the sink update) the sink is paused exactly when the paused flag is set
\* and its volume is 0 when muted and current_volume otherwise.
C15_SinkMirrorsState ==
    pc = "loop" /\ sink.present =>
        /\ sink.paused = paused
        /\ sink.volume = (IF audio_muted THEN 0 ELSE current_volume)
        /\ ~sink.stopped

\* C15 witness: pause, then mute, with a sink: the sink is paused and silent
\* while current_volume is still the initial 0.5.
C15_Witness ==
    /\ pc = "loop"
    /\ step = "m"
    /\ appliedCount = 2
    /\ sink.present
    /\ paused /\ sink.paused
    /\ audio_muted /\ sink.volume = 0
    /\ current_volume = F32Half

\* C16: from the initial 0.5, after any sequence of volume-up, volume-down
\* and mute commands current_volume is within [0, 1]; a volume-up at 1.0
\* leaves 1.0 and a volume-down at 0.0 leaves 0.0; an unclamped step is 0.1
\* up or down to the precision of an f32; mute leaves the volume alone.
C16_VolumeWithinUnitRange ==
    /\ [](current_volume \in 0..F32One)
    /\ [][/\ (step' = "+" =>
                /\ (current_volume = F32One => current_volume' = F32One)
                /\ (current_volume' < F32One =>
                        current_volume' - current_volume
                            \in (F32Tenth - 8)..(F32Tenth + 8)))
          /\ (step' = "-" =>
                /\ (current_volume = 0 => current_volume' = 0)
                /\ (current_volume' > 0 =>
                        current_volume - current_volume'
                            \in (F32Tenth - 8)..(F32Tenth + 8)))
          /\ (step' = "m" => current_volume' = current_volume)]_vars

\* C16 witness: six volume-ups in a row from 0.5 and nothing else: the fifth
\* reached 1.0 and the sixth was handled at 1.0.
C16_Witness ==
    /\ pc = "loop"
    /\ step = "+"
    /\ appliedCount = 6
    /\ current_volume = F32One
    /\ ~audio_muted
    /\ sink.present /\ sink.volume = F32One

\* The playback state the scheduler keeps and the input thread has no part in.
PlaybackState == <<current_frame, paused, current_delay, current_volume,
                   audio_muted>>

\* C17: a step of the input thread leaves the playback state (current_frame,
\* paused, delay, volume, muted) and everything else of the scheduler alone
\* and at most appends one key code to the channel; the playback state is
\* written only by steps of the scheduler (setup, a handled command, a tick),
\* which is also the only one to take messages out of the channel; and the
\* scheduler never waits for input: with an empty channel its tick is enabled.
C17_InputThreadOnlySends ==
    /\ [](pc = "loop" /\ queue = <<>> => ENABLED Tick)
    /\ [][/\ (step' = "send" =>
                /\ UNCHANGED <<PlaybackState, pc, result, total_frames, audio,
                               terminal, temp_dir, appliedCount, displayed,
                               shutdown>>
                /\ \/ UNCHANGED <<queue, sentCount>> /\ input' = "dead"
                   \/ /\ Len(queue') = Len(queue) + 1
                      /\ SubSeq(queue', 1, Len(queue)) = queue
                      /\ queue'[Len(queue')].key \in Keys
                      /\ sentCount' = sentCount + 1
                      /\ input' = input)
          /\ (PlaybackState' # PlaybackState =>
                step' \in Keys \cup {"setup", "tick"})
          /\ (Len(queue') < Len(queue) => step' \in Keys \cup {"tick"})
          /\ (step' \in Keys \cup {"setup", "tick", "clock", "configure"} =>
                sentCount' = sentCount /\ input' \in {input, "run"})]_vars

\* C17 witness: a key was sent while playback was paused on a frame other
\* than the first, with another message still waiting: the send changed
\* nothing but the channel.
C17_Witness ==
    /\ pc = "loop"
    /\ step = "send"
    /\ paused
    /\ displayed > 0
    /\ Len(queue) = 1
    /\ sentCount = 2

\* C18: the number of stored frames never exceeds the capacity; a push on a
\* full buffer removes exactly the oldest frame and appends the new one, and
\* a push on a buffer that is not full removes nothing.
C18_NeverExceedsCapacity ==
    /\ [](Len(frames) <= capacity)
    /\ [][pushed' = pushed + 1 =>
            IF Len(frames) = capacity
            THEN /\ Len(frames') = capacity
                 /\ frames' = Append(Tail(frames), pushed')
            ELSE frames' = Append(frames, pushed')]_vars

\* C18 witness: a third frame was pushed on a buffer of capacity 2 holding
\* frames 1 and 2: frame 1 is gone, frames 2 and 3 are stored.
C18_Witness ==
    /\ b_pc = "ready"
    /\ capacity = 2
    /\ pushed = 3
    /\ frames = <<2, 3>>
    /\ trace[Len(trace)].op = "push"

\* C19: when next() returned a frame and previous() is the very next
\* operation, previous() returns that same frame and the cursor is where it
\* was before the next().
C19_PreviousUndoesNext ==
    (/\ Len(trace) = 2
     /\ trace[1].op = "next"
     /\ trace[1].ret # None
     /\ trace[2].op = "previous") =>
        /\ trace[2].ret = trace[1].ret
        /\ position = trace[1].pos0

\* C19 witness: with frames 1, 2, 3 stored and the cursor on the second,
\* next() returned frame 2 and previous() returned frame 2 again; the cursor
\* is back on the second frame.
C19_Witness ==
    /\ frames = <<1, 2, 3>>
    /\ trace = <<[op |-> "next", ret |-> Some(2), pos0 |-> 1],
                 [op |-> "previous", ret |-> Some(2), pos0 |-> 2]>>
    /\ position = 1

\* C20 (as claimed): after any sequence of operations 0 <= position <= len;
\* a next() at position = len and a previous() at position = 0 return an
\* absent result and leave the cursor where it is; no operation faults.
C20_CursorWithinBounds ==
    /\ b_pc # "panic"
    /\ position \in 0..Len(frames)
    /\ (trace # <<>> =>
            LET e == trace[Len(trace)] IN
            /\ (e.op = "next" /\ e.pos0 = Len(frames) =>
                    e.ret = None /\ position = e.pos0)
            /\ (e.op = "previous" /\ e.pos0 = 0 =>
                    e.ret = None /\ position = 0))


\* The frame the cursor designates: what the next call to next() returns.
Designated(fr, pos) == IF pos < Len(fr) THEN Some(fr[pos + 1]) ELSE None

\* C21 (as claimed): a push on a full buffer leaves the frame the cursor
\* designates (the one the next call to next() returns) unchanged.
C21_PushKeepsDesignatedFrame ==
    [][pushed' = pushed + 1 /\ IsFull(frames, capacity) =>
        Designated(frames', position') = Designated(frames, position)]_vars

\* C21 (amended): a push on a full buffer leaves the designated frame
\* unchanged when the cursor is on a frame that survives the eviction
\* (0 < position < len); a cursor on the evicted oldest frame (position = 0)
\* stays at 0 and designates the oldest frame left, and a cursor past the end
\* (position = len) becomes len - 1 and designates the frame just pushed.
C21_PushKeepsSurvivingFrame ==
    [][pushed' = pushed + 1 /\ IsFull(frames, capacity) =>
        /\ (0 < position /\ position < Len(frames) =>
                /\ position' = position - 1
                /\ Designated(frames', position') = Designated(frames, position))
        /\ (position = 0 =>
                /\ position' = 0
                /\ Designated(frames', position') = Some(frames'[1])
                /\ Designated(frames', position') # Designated(frames, position))
        /\ (position = Len(frames) =>
                /\ position' = Len(frames') - 1
                /\ Designated(frames, position) = None
                /\ Designated(frames', position') = Some(pushed'))]_vars

\* C21 witness: frames 1, 2, 3 filled a buffer of capacity 3 with the cursor
\* on frame 3; frame 4 was pushed, frame 1 is gone and the cursor, shifted
\* from 2 to 1, is still on frame 3.
C21_Witness ==
    /\ capacity = 3
    /\ frames = <<2, 3, 4>>
    /\ position = 1
    /\ trace[Len(trace)] = [op |-> "push", ret |-> None, pos0 |-> 2]


\* The packets among pkts[from .. to] that decode to a frame, in order (each
\* named by its position).
DecodedIn(pkts, from, to) ==
    LET Decodes(i) == pkts[i] = "frame"
    IN  SelectSeq([i \in 1..(to - from + 1) |-> from + i - 1], Decodes)

\* Every n-th element of q: the n-th, the 2n-th, ...
EveryNth(q, n) == [j \in 1..(Len(q) \div n) |-> q[j * n]]

C23_SeekResetsSkipCounter ==
    /\ (call.op = "seek" /\ call.res = "Ok" =>
            /\ reader.skip_counter = 0
            /\ 2 * reader.frame_count <= call.time * reader.frame_rate
            /\ 2 * (reader.frame_count + 1) > call.time * reader.frame_rate)
    /\ (call.seeks > 0 /\ call.res = "Ok" /\ Len(fetched) > call.mark =>
            LET decoded == DecodedIn(packets, call.at, Len(packets)) IN
            /\ Len(decoded) >= skip_frames
            /\ fetched[call.mark + 1] = decoded[skip_frames])


\* The frame does not have the size of the grid: convert resamples it.
Resampled ==
    frame.width # converter.width \/ frame.height # converter.height

\* C24: the AsciiFrame convert returns has the width and height of the grid
\* and exactly width * height cells, whether the frame had the size of the
\* grid or was resampled; every index of the two loops was read, none was
\* skipped by the out-of-range guard.
C24_CellCountIsGridSize ==
    c_pc = "converted" =>
        /\ ascii_frame[1].width = converter.width
        /\ ascii_frame[1].height = converter.height
        /\ Len(ascii_frame[1].data) = converter.width * converter.height
        /\ Len(reads) = converter.width * converter.height

\* C24 witness: a frame of 1 x 4 pixels was converted for a grid of 2 x 2
\* (resampled to 2 x 4): the AsciiFrame has 4 cells.
C24_Witness ==
    /\ c_pc = "converted"
    /\ frame.width = 1 /\ frame.height = 4
    /\ converter.width = 2 /\ converter.height = 2
    /\ Resampled
    /\ Len(ascii_frame[1].data) = 4

\* C30 (as claimed): when convert resamples the frame to width x (2 * height),
\* the cells of output row y are read from row 2y or row 2y + 1 of the
\* oversampled image, so that the last output row is read from its bottom.
C30_RowsCoverOversampledImage ==
    c_pc = "converted" /\ Resampled =>
        \A k \in 1..Len(reads) :
            LET y == (k - 1) \div converter.width
                row == reads[k] \div converter.width
            IN  row \in {2 * y, 2 * y + 1}


\* The first character of a ramp.
First(chars) == chars[1]

\* C25: with contrast 1 and brightness 0, for every character set and all
\* 8-bit luminances a <= b, the glyph index convert computes for a is at
\* most the one it computes for b, and so for brightness_to_ascii; every
\* index lies in 0..ramp_length - 1, and the character given is the one of
\* the ramp at that index.
C25_MappingMonotonicInRange ==
    mapped.op \in {"convert", "brightness_to_ascii"} =>
        /\ mapped.idx[1] <= mapped.idx[2]
        /\ \A k \in 1..2 :
              /\ mapped.idx[k] \in 0..(CharCount(converter.char_set) - 1)
              /\ mapped.ch[k] = GetChars(converter.char_set)[mapped.idx[k] + 1]

\* C25 witness: convert mapped the luminances 100 and 255 with the Extended
\* set: 255 got the last index, 77, and 100 a smaller one.
C25_Witness ==
    /\ g_pc = "mapped"
    /\ mapped.op = "convert"
    /\ converter.char_set = "Extended"
    /\ luminances = <<100, U8Max>>
    /\ mapped.idx[1] < mapped.idx[2]
    /\ mapped.idx[2] = 77

\* C26: pixel_to_ascii maps the pixel (0,0,0) to the first character of
\* ASCII_CHARS and (255,255,255) to the last, and with ascii_invert set the
\* other way round; convert (contrast 1, brightness 0) maps a black pixel to
\* the first character of the ramp of its character set and a white one to
\* the last, and brightness_to_ascii does so for the luminances 0 and 255.
C26_BlackFirstWhiteLast ==
    /\ (mapped.op = "pixel_to_ascii" /\ pixel = Black =>
            mapped.ch[1] = IF ascii_invert THEN Last(ASCII_CHARS)
                           ELSE First(ASCII_CHARS))
    /\ (mapped.op = "pixel_to_ascii" /\ pixel = White =>
            mapped.ch[1] = IF ascii_invert THEN First(ASCII_CHARS)
                           ELSE Last(ASCII_CHARS))
    /\ (mapped.op = "convert_pixel" /\ pixel = Black =>
            mapped.ch[1] = First(GetChars(converter.char_set)))
    /\ (mapped.op = "convert_pixel" /\ pixel = White =>
            mapped.ch[1] = Last(GetChars(converter.char_set)))
    /\ (mapped.op \in {"convert", "brightness_to_ascii"} =>
            /\ (luminances[1] = 0 =>
                    mapped.ch[1] = First(GetChars(converter.char_set)))
            /\ (luminances[2] = U8Max =>
                    mapped.ch[2] = Last(GetChars(converter.char_set))))

\* C26 witness: with ascii_invert set, pixel_to_ascii mapped the white pixel
\* to the blank, the first character of ASCII_CHARS.
C26_Witness ==
    /\ g_pc = "mapped"
    /\ mapped.op = "pixel_to_ascii"
    /\ pixel = White
    /\ ascii_invert
    /\ mapped.idx = <<0>>
    /\ mapped.ch = <<" ">>


\* C27 (as claimed): for any number of extracted frames the cache has one
\* entry for each frame file, entry i (from 0) is the conversion of frame
\* file i + 1, whatever order the directory was listed in, and a frame whose
\* conversion fails has the placeholder in its own slot.
C27_CacheInFrameOrder ==
    k_pc = "built" =>
        /\ Len(ascii_frames) = extracted
        /\ \A i \in 1..Len(ascii_frames) :
              /\ ascii_frames[i].frame = i
              /\ ascii_frames[i].text =
                    (IF i \in broken THEN "Error converting frame to ASCII"
                     ELSE "ascii")


\* (current_volume * 10.0).round() as i32
VolumeTenths(volume) == (F32Round(volume * 10) + F32Half) \div F32One

\* The volume_status terminal.draw puts on the status line.
VolumeStatus(setup_success, muted, volume) ==
    IF ~setup_success THEN "NO AUDIO"
    ELSE IF muted THEN "MUTED"
    ELSE <<"VOL: 0%", "VOL: 10%", "VOL: 20%", "VOL: 30%", "VOL: 40%",
           "VOL: 50%", "VOL: 60%", "VOL: 70%", "VOL: 80%", "VOL: 90%",
           "VOL: 100%">>[Min(VolumeTenths(volume), 10) + 1]

\* No audio is playing because something failed: there is no sink, or the
\* audio track could not be extracted, opened or decoded.
AudioFailed == ~sink.present \/ sink.source = "failed"

\* C28 (as claimed): when audio is not playing because of a failure, every
\* render (a tick that drew) shows the status NO AUDIO, whatever mute and
\* volume commands were handled before it.
C28_NoAudioStatusShown ==
    pc = "loop" /\ step = "tick" /\ AudioFailed =>
        VolumeStatus(audio_setup_success, audio_muted, current_volume)
            = "NO AUDIO"


\* C29 (as claimed): whenever play_as_ascii has returned, by quit or by an
\* error after create_dir_all, the temporary frame directory is gone.
C29_TempDirRemovedOnExit == pc = "done" => ~temp_dir


\* C31: mute does not lose the volume level. A mute command leaves
\* current_volume alone and sets the sink volume to 0 when muting and to
\* current_volume when unmuting; as the sink of an unmuted player is at
\* current_volume, two mutes in a row leave both exactly as before. A
\* volume-up or volume-down handled while muted changes current_volume (up
\* to the clamp) and leaves the sink at 0; the unmute that follows gives the
\* sink the updated current_volume.
C31_MuteKeepsVolume ==
    /\ [](pc = "loop" /\ sink.present =>
            sink.volume = (IF audio_muted THEN 0 ELSE current_volume))
    /\ [][/\ (step' = "m" /\ appliedCount' = appliedCount + 1 =>
                /\ audio_muted' = ~audio_muted
                /\ current_volume' = current_volume
                /\ (sink.present =>
                        sink'.volume = (IF audio_muted THEN current_volume
                                        ELSE 0)))
          /\ (step' \in {"+", "-"} /\ appliedCount' = appliedCount + 1
                /\ audio_muted =>
                /\ audio_muted'
                /\ sink' = sink
                /\ (sink.present => sink.volume = 0)
                /\ (step' = "+" =>
                        current_volume' > current_volume
                            \/ current_volume = F32One)
                /\ (step' = "-" =>
                        current_volume' < current_volume
                            \/ current_volume = 0))]_vars

\* C31 witness: three commands, two mutes and a volume-up between or before
\* them, the last one a mute that unmuted: current_volume and the sink are
\* at the raised level.
C31_Witness ==
    /\ pc = "loop"
    /\ step = "m"
    /\ appliedCount = 3
    /\ ~audio_muted
    /\ sink.present
    /\ current_volume = VolumeUp(F32Half)
    /\ sink.volume = VolumeUp(F32Half)


\* C32 (as claimed): with an empty cache (total_frames = 0) no step of the
\* loop faults: no tick takes a remainder modulo zero and no render indexes
\* the empty cache, whatever commands were received.
C32_EmptyCacheDoesNotFault ==
    [][pc = "loop" /\ total_frames = 0 => pc' # "panic"]_vars


\* C33 (as claimed): once play_as_ascii has returned after a quit, the input
\* thread does not fault: it is never brought down by a send on the closed
\* channel.
C33_InputThreadSurvivesQuit ==
    pc = "done" /\ result = "Ok" => input # "dead"


\* C34: in play_video an error of next_frame, of whatever kind, ends the
\* loop at once and play_video returns Ok: after a decoding error the state
\* is the one an end of stream leaves (loop over, result Ok, no further
\* frame fetched or rendered); play_video returns Err only after a
\* next_frame that was Ok, on an I/O error of the event poll or read or of
\* the render, and only then does main report the error of play_video.
C34_AnyReaderErrorEndsPlayback ==
    /\ (v_pc # "idle" /\ call.op = "next_frame" /\ call.res # "Ok" =>
            /\ v_pc = "done"
            /\ v_result = "Ok"
            /\ m_error # "play_video")
    /\ (v_result = "Err" =>
            /\ v_pc = "done"
            /\ call.op = "next_frame"
            /\ call.res = "Ok")
    /\ (m_error = "play_video" => v_result = "Err" /\ m_result = "Err")
    /\ (v_pc = "play" => call.res \in {"none", "Ok"})

\* C34 witness: the first packet gave a frame that was rendered, the second
\* was rejected by the decoder with a frame still to come: play_video
\* returned Ok.
C34_Witness ==
    /\ packets = <<"frame", "bad", "frame">>
    /\ skip_frames = 1
    /\ rendered = <<1>>
    /\ call.op = "next_frame"
    /\ call.res = "DecodingError"
    /\ v_pc = "done"
    /\ v_result = "Ok"

====
